---------------------------- MODULE Spec2Model ----------------------------
(***************************************************************************)
(* Model of the retirement projection of PensionTaxModel:                  *)
(*   app/modules/tax.py      bracket tax, surcharges, currency conversion  *)
(*   app/modules/finance.py  per-strategy annual step, starting pots       *)
(*   app/app.py              the year-by-year simulation loop              *)
(*                                                                         *)
(* Python floats are modelled as exact rationals [n |-> Int, d |-> Nat]    *)
(* in lowest terms (d > 0); float("inf") is the value with d = 0.          *)
(* Percent inputs keep the units of the code (3.5 means 3.5 percent).      *)
(***************************************************************************)
EXTENDS Integers, Sequences, FiniteSets, TLC

\* ------------------------------------------------------------------ bounds
MaxRegimeYears == 2
MaxPostYears == 2
MaxBrackets == 3
MaxRows == 3

\* ------------------------------------------------- exact float arithmetic
Abs(x) == IF x < 0 THEN -x ELSE x

\* Euclid's algorithm
RECURSIVE GCD(_, _)
GCD(a, b) == IF b = 0 THEN a ELSE GCD(b, a % b)

\* the rational n/d (d > 0) in lowest terms
R(n, d) ==
  LET g == GCD(Abs(n), d)
  IN  IF n = 0 THEN [n |-> 0, d |-> 1] ELSE [n |-> n \div g, d |-> d \div g]

Zero == R(0, 1)
One == R(1, 1)
Inf == [n |-> 1, d |-> 0]
IsInf(a) == a.d = 0

RNeg(a) == [n |-> -a.n, d |-> a.d]

RAdd(a, b) ==
  IF IsInf(a) THEN a
  ELSE IF IsInf(b) THEN b
  ELSE LET g == GCD(a.d, b.d)
       IN  R(a.n * (b.d \div g) + b.n * (a.d \div g), (a.d \div g) * b.d)

RSub(a, b) == RAdd(a, RNeg(b))

RMul(a, b) ==
  LET g1 == GCD(Abs(a.n), b.d)
      g2 == GCD(Abs(b.n), a.d)
  IN  IF a.n = 0 \/ b.n = 0 THEN Zero
      ELSE R((a.n \div g1) * (b.n \div g2), (a.d \div g2) * (b.d \div g1))

\* a / b for b # 0
RDiv(a, b) ==
  IF b.n < 0 THEN RMul(a, [n |-> -b.d, d |-> -b.n])
  ELSE RMul(a, [n |-> b.d, d |-> b.n])

Sign(a) == IF a.n > 0 THEN 1 ELSE IF a.n < 0 THEN -1 ELSE 0

RLt(a, b) ==
  IF IsInf(a) THEN FALSE
  ELSE IF IsInf(b) THEN TRUE
  ELSE Sign(RSub(a, b)) < 0

RLe(a, b) == ~RLt(b, a)

\* Python's min(a, b) and max(a, b)
RMin(a, b) == IF RLt(b, a) THEN b ELSE a
RMax(a, b) == IF RLt(a, b) THEN b ELSE a

\* x percent as a fraction: x / 100.0
Pct(x) == RDiv(x, R(100, 1))

\* ------------------------------------------------------------------ tax.py
IrpefBracket(up_to, rate) == [up_to |-> up_to, rate |-> rate]

italian_irpef_2025 ==
  << IrpefBracket(R(28000, 1), R(23, 100)),
     IrpefBracket(R(50000, 1), R(35, 100)),
     IrpefBracket(Inf, R(43, 100)) >>

\* mutant of BracketWalk: prev_cap is never advanced to b.up_to
RECURSIVE BracketWalkStalePrevCap(_, _, _, _, _)
BracketWalkStalePrevCap(brackets, i, remaining, prev_cap, tax) ==
  IF i > Len(brackets) THEN tax
  ELSE LET b == brackets[i]
           span == RMin(remaining, RSub(b.up_to, prev_cap))
           taken == RLt(Zero, span)
           tax2 == IF taken THEN RAdd(tax, RMul(span, b.rate)) ELSE tax
           remaining2 == IF taken THEN RSub(remaining, span) ELSE remaining
       IN  IF RLe(remaining2, Zero) THEN tax2
           ELSE BracketWalkStalePrevCap(brackets, i + 1, remaining2, prev_cap, tax2)

\* the for loop of calc_irpef_tax from bracket i on, with its three locals
RECURSIVE BracketWalk(_, _, _, _, _)
BracketWalk(brackets, i, remaining, prev_cap, tax) ==
  IF i > Len(brackets) THEN tax
  ELSE LET b == brackets[i]
           span == RMin(remaining, RSub(b.up_to, prev_cap))
           taken == RLt(Zero, span)
           tax2 == IF taken THEN RAdd(tax, RMul(span, b.rate)) ELSE tax
           remaining2 == IF taken THEN RSub(remaining, span) ELSE remaining
           prev_cap2 == IF taken THEN b.up_to ELSE prev_cap
       IN  IF RLe(remaining2, Zero) THEN tax2
           ELSE BracketWalk(brackets, i + 1, remaining2, prev_cap2, tax2)

\* mutant of calc_irpef_tax: the whole income at the rate of the bracket reached
calc_irpef_tax_whole_income(income_eur, brackets) ==
  LET i == CHOOSE j \in 1..Len(brackets) :
             /\ RLe(income_eur, brackets[j].up_to)
             /\ \A k \in 1..(j - 1) : RLt(brackets[k].up_to, income_eur)
  IN  RMul(income_eur, brackets[i].rate)

calc_irpef_tax(income_eur, brackets) ==
  RMax(BracketWalk(brackets, 1, income_eur, Zero, Zero), Zero)

add_region_muni_surcharge(tax_eur, regional_pct, municipal_pct) ==
  RMul(tax_eur, RAdd(RAdd(One, regional_pct), municipal_pct))

tax_at_irpef_with_surcharges(amount_eur, brackets, regional_pct, municipal_pct) ==
  add_region_muni_surcharge(calc_irpef_tax(amount_eur, brackets),
                            regional_pct, municipal_pct)

gbp_to_eur(amount_gbp, fx) == RMul(amount_gbp, fx)


\* -------------------------------------------------------------- finance.py
StrategyInputs(allocation_pct, gross_yield_pct, mgmt_fee_pct, growth_pct, is_foreign_source) ==
  [allocation_pct |-> allocation_pct, gross_yield_pct |-> gross_yield_pct,
   mgmt_fee_pct |-> mgmt_fee_pct, growth_pct |-> growth_pct,
   is_foreign_source |-> is_foreign_source]

\* the closure invest_tax_post10 of the simulation loop: the variables it
\* captures (brackets and the two surcharges) and its application
TaxClosure(brackets, regional_surcharge, municipal_surcharge) ==
  [brackets |-> brackets, regional_surcharge |-> regional_surcharge,
   municipal_surcharge |-> municipal_surcharge]

invest_tax_post10(closure, amount_eur) ==
  tax_at_irpef_with_surcharges(amount_eur, closure.brackets,
                               closure.regional_surcharge, closure.municipal_surcharge)

\* the flat rate 0.07 of the regime
FlatRate == R(7, 100)

\* mutant of annual_investment_step: the tax is taken on gross_income
annual_investment_step_tax_on_gross(capital, strategy, in_regime_7pct, tax_func_post10) ==
  LET gross_income == RMul(capital, Pct(strategy.gross_yield_pct))
      fees == RMul(capital, Pct(strategy.mgmt_fee_pct))
      income_after_fees == RMax(RSub(gross_income, fees), Zero)
      tax == IF in_regime_7pct /\ strategy.is_foreign_source
             THEN RMul(gross_income, FlatRate)
             ELSE IF RLt(Zero, gross_income)
                  THEN invest_tax_post10(tax_func_post10, gross_income)
                  ELSE Zero
      net_income == RMax(RSub(income_after_fees, tax), Zero)
      capital_growth == RMul(capital, Pct(strategy.growth_pct))
      end_capital == RAdd(capital, capital_growth)
  IN  [end_capital |-> end_capital, net_income |-> net_income,
       gross_income |-> gross_income, tax |-> tax]

\* mutant of annual_investment_step: the net income is reinvested in the pot
annual_investment_step_reinvest(capital, strategy, in_regime_7pct, tax_func_post10) ==
  LET gross_income == RMul(capital, Pct(strategy.gross_yield_pct))
      fees == RMul(capital, Pct(strategy.mgmt_fee_pct))
      income_after_fees == RMax(RSub(gross_income, fees), Zero)
      tax == IF in_regime_7pct /\ strategy.is_foreign_source
             THEN RMul(income_after_fees, FlatRate)
             ELSE IF RLt(Zero, income_after_fees)
                  THEN invest_tax_post10(tax_func_post10, income_after_fees)
                  ELSE Zero
      net_income == RMax(RSub(income_after_fees, tax), Zero)
      capital_growth == RMul(capital, Pct(strategy.growth_pct))
      end_capital == RAdd(RAdd(capital, capital_growth), net_income)
  IN  [end_capital |-> end_capital, net_income |-> net_income,
       gross_income |-> gross_income, tax |-> tax]

\* mutant of annual_investment_step: the flat rate whatever the income's source
annual_investment_step_any_source(capital, strategy, in_regime_7pct, tax_func_post10) ==
  LET gross_income == RMul(capital, Pct(strategy.gross_yield_pct))
      fees == RMul(capital, Pct(strategy.mgmt_fee_pct))
      income_after_fees == RMax(RSub(gross_income, fees), Zero)
      tax == IF in_regime_7pct
             THEN RMul(income_after_fees, FlatRate)
             ELSE IF RLt(Zero, income_after_fees)
                  THEN invest_tax_post10(tax_func_post10, income_after_fees)
                  ELSE Zero
      net_income == RMax(RSub(income_after_fees, tax), Zero)
      capital_growth == RMul(capital, Pct(strategy.growth_pct))
      end_capital == RAdd(capital, capital_growth)
  IN  [end_capital |-> end_capital, net_income |-> net_income,
       gross_income |-> gross_income, tax |-> tax]

annual_investment_step(capital, strategy, in_regime_7pct, tax_func_post10) ==
  LET gross_income == RMul(capital, Pct(strategy.gross_yield_pct))
      fees == RMul(capital, Pct(strategy.mgmt_fee_pct))
      income_after_fees == RMax(RSub(gross_income, fees), Zero)
      tax == IF in_regime_7pct /\ strategy.is_foreign_source
             THEN RMul(income_after_fees, FlatRate)
             ELSE IF RLt(Zero, income_after_fees)
                  THEN invest_tax_post10(tax_func_post10, income_after_fees)
                  ELSE Zero
      net_income == RMax(RSub(income_after_fees, tax), Zero)
      capital_growth == RMul(capital, Pct(strategy.growth_pct))
      end_capital == RAdd(capital, capital_growth)
  IN  [end_capital |-> end_capital, net_income |-> net_income,
       gross_income |-> gross_income, tax |-> tax]

\* the strategies dict iterates in insertion order
StrategyOrder == << "Cash", "Bonds", "Equity", "Rental" >>
StrategyNames == { StrategyOrder[i] : i \in 1..Len(StrategyOrder) }

\* sum(f(k) for k in the dict), in iteration order
RECURSIVE SumFrom(_, _)
SumFrom(f, i) ==
  IF i > Len(StrategyOrder) THEN Zero
  ELSE RAdd(f[StrategyOrder[i]], SumFrom(f, i + 1))

SumOver(f) == SumFrom(f, 1)

blend_allocations(strategies) ==
  SumOver([k \in StrategyNames |-> strategies[k].allocation_pct])

\* mutant of weighted_starting_capital: the percentages are not normalised
weighted_starting_capital_percent(total_capital, strategies) ==
  LET alloc_sum == blend_allocations(strategies)
  IN  IF RLe(alloc_sum, Zero)
      THEN [k \in DOMAIN strategies |-> Zero]
      ELSE [k \in DOMAIN strategies |->
              RMul(total_capital, Pct(strategies[k].allocation_pct))]

\* mutant of weighted_starting_capital: equal shares when nothing is allocated
weighted_starting_capital_equal(total_capital, strategies) ==
  LET alloc_sum == blend_allocations(strategies)
  IN  IF RLe(alloc_sum, Zero)
      THEN [k \in DOMAIN strategies |->
              RDiv(total_capital, R(Cardinality(DOMAIN strategies), 1))]
      ELSE [k \in DOMAIN strategies |->
              RMul(total_capital, RDiv(strategies[k].allocation_pct, alloc_sum))]

weighted_starting_capital(total_capital, strategies) ==
  LET alloc_sum == blend_allocations(strategies)
  IN  IF RLe(alloc_sum, Zero)
      THEN [k \in DOMAIN strategies |-> Zero]
      ELSE [k \in DOMAIN strategies |->
              RMul(total_capital, RDiv(strategies[k].allocation_pct, alloc_sum))]


\* ------------------------------------------------------------------ app.py
VARIABLES
  pc,        \* where the script is: "inputs", "setup", "loop", "built"; "call" in the function specs
  cfg,       \* the widget values of this run
  y,         \* iterations of the simulation loop completed so far
  pots,      \* strategy name -> capital
  rows,      \* the nine tracking lists, one record per appended year
  df,        \* the DataFrame built from the tracking lists
  call,      \* function specs: the last application of the function under study
  prevCall   \* function specs: the application before it

vars == << pc, cfg, y, pots, rows, df, call, prevCall >>

NoCall == [fn |-> "none"]

\* the sidebar inputs: FX, the two pensions and the starting capital (GBP).
\* The capitals are multiples of 5^8 so that six years of compounding stay
\* within the 32-bit integers of the model checker.
GeneralInputs ==
  { [fx |-> R(12, 10), you_pension_gbp |-> R(30000, 1),
     wife_pension_gbp |-> R(20000, 1), starting_capital_gbp |-> R(1562500, 1)],
    [fx |-> One, you_pension_gbp |-> R(20000, 1),
     wife_pension_gbp |-> Zero, starting_capital_gbp |-> R(390625, 1)] }

\* regional and municipal add-on (number_input without a minimum)
SurchargeInputs ==
  { [regional_surcharge |-> R(20, 100), municipal_surcharge |-> R(5, 100)],
    [regional_surcharge |-> R(-2, 1), municipal_surcharge |-> Zero] }

Settings(gross_yield_pct, mgmt_fee_pct, growth_pct) ==
  [gross_yield_pct |-> gross_yield_pct, mgmt_fee_pct |-> mgmt_fee_pct,
   growth_pct |-> growth_pct]

\* allocation %, and yield / fee / growth %, offered per strategy
AllocInputs(name) ==
  CASE name = "Cash" -> { Zero, R(40, 1) }
    [] name = "Bonds" -> { Zero, R(30, 1) }
    [] name = "Equity" -> { Zero, R(20, 1) }
    [] name = "Rental" -> { Zero, R(10, 1) }

SettingInputs(name) ==
  CASE name = "Cash" -> { Settings(R(35, 10), R(1, 10), Zero),
                           Settings(Zero, Zero, R(20, 1)) }
    [] name = "Bonds" -> { Settings(R(38, 10), R(2, 10), Zero), Settings(One, R(2, 1), Zero) }
    [] name = "Equity" -> { Settings(R(2, 1), One, R(20, 1)) }
    [] name = "Rental" -> { Settings(R(4, 1), R(5, 10), R(20, 1)),
                             Settings(R(4, 1), R(5, 10), Zero) }

\* Cash, Bonds and Equity are built foreign-source; Rental follows its checkbox
ForeignInputs(name) == IF name = "Rental" THEN BOOLEAN ELSE { TRUE }

StrategyChoices(name) ==
  { StrategyInputs(a, s.gross_yield_pct, s.mgmt_fee_pct, s.growth_pct, f) :
      a \in AllocInputs(name), s \in SettingInputs(name), f \in ForeignInputs(name) }

StrategyDicts ==
  { [Cash |-> c, Bonds |-> b, Equity |-> e, Rental |-> r] :
      c \in StrategyChoices("Cash"), b \in StrategyChoices("Bonds"),
      e \in StrategyChoices("Equity"), r \in StrategyChoices("Rental") }

Configs ==
  { [fx |-> g.fx, you_pension_gbp |-> g.you_pension_gbp,
     wife_pension_gbp |-> g.wife_pension_gbp,
     starting_capital_gbp |-> g.starting_capital_gbp,
     years_in_7pct |-> n, years_post |-> m,
     regional_surcharge |-> s.regional_surcharge,
     municipal_surcharge |-> s.municipal_surcharge,
     strategies |-> d] :
      g \in GeneralInputs, n \in 1..MaxRegimeYears, m \in 1..MaxPostYears,
      s \in SurchargeInputs, d \in StrategyDicts }

you_pension_eur == gbp_to_eur(cfg.you_pension_gbp, cfg.fx)
wife_pension_eur == gbp_to_eur(cfg.wife_pension_gbp, cfg.fx)
starting_capital_eur == gbp_to_eur(cfg.starting_capital_gbp, cfg.fx)
brackets == italian_irpef_2025
\* mutant of years_total: the post-regime years are left out
years_total_regime_only == cfg.years_in_7pct

years_total == cfg.years_in_7pct + cfg.years_post

\* pots.get(name, 0.0)
PotsGet(p, name) == IF name \in DOMAIN p THEN p[name] ELSE Zero

\* mutant of Accumulate: every strategy is added to the foreign totals
AccumulateAllForeign(acc, name, is_foreign_source, step) ==
  [acc EXCEPT !.foreign_income = RAdd(@, step.gross_income),
              !.foreign_tax = RAdd(@, step.tax),
              !.new_pots = @ @@ (name :> step.end_capital)]

\* the body of the loop over strategies.items() after the call: the pot is
\* stored and the gross income and the tax are added to the totals of the
\* strategy's source; acc holds foreign_income, foreign_tax, italian_income,
\* italian_tax and new_pots
Accumulate(acc, name, is_foreign_source, step) ==
  IF is_foreign_source
  THEN [acc EXCEPT !.foreign_income = RAdd(@, step.gross_income),
                   !.foreign_tax = RAdd(@, step.tax),
                   !.new_pots = @ @@ (name :> step.end_capital)]
  ELSE [acc EXCEPT !.italian_income = RAdd(@, step.gross_income),
                   !.italian_tax = RAdd(@, step.tax),
                   !.new_pots = @ @@ (name :> step.end_capital)]

\* the for loop over strategies.items() from the i-th strategy on
RECURSIVE StrategyLoop(_, _, _, _)
StrategyLoop(i, acc, in_regime, tax_func) ==
  IF i > Len(StrategyOrder) THEN acc
  ELSE LET name == StrategyOrder[i]
           strat == cfg.strategies[name]
           cap0 == PotsGet(pots, name)
       IN  StrategyLoop(i + 1,
                        Accumulate(acc, name, strat.is_foreign_source,
                                   annual_investment_step(cap0, strat, in_regime, tax_func)),
                        in_regime, tax_func)

\* sum(pots.values())
SumValues(p) == SumOver([k \in StrategyNames |-> PotsGet(p, k)])

\* total_net as the loop computes it
total_net_of(pension_net, acc) ==
  RAdd(RAdd(pension_net, RSub(acc.foreign_income, acc.foreign_tax)),
       RSub(acc.italian_income, acc.italian_tax))

\* the pension tax of year yr
pension_tax_of(pension_gross, in_regime) ==
  IF in_regime THEN RMul(pension_gross, FlatRate)
  ELSE add_region_muni_surcharge(calc_irpef_tax(pension_gross, brackets),
                                 cfg.regional_surcharge, cfg.municipal_surcharge)

\* the end of an iteration: the totals of the year, the new pots and the
\* values appended to the nine tracking lists
YearTotals(pension_gross, pension_tax, acc) ==
  [pots |-> acc.new_pots,
   row |-> [year_end_capital |-> SumValues(acc.new_pots),
            year_pension_gross |-> pension_gross,
            year_tax_total |-> RAdd(RAdd(pension_tax, acc.foreign_tax), acc.italian_tax),
            year_net_income_total |-> total_net_of(RSub(pension_gross, pension_tax), acc),
            year_foreign_invest_income |-> acc.foreign_income,
            year_italian_invest_income |-> acc.italian_income,
            year_foreign_invest_tax |-> acc.foreign_tax,
            year_italian_invest_tax |-> acc.italian_tax,
            year_pension_tax |-> pension_tax]]

\* mutant of YearBody: the flat regime lasts one year longer
YearBodyOneMoreYear(yr) ==
  LET in_regime == yr <= cfg.years_in_7pct + 1
      pension_gross == RAdd(you_pension_eur, wife_pension_eur)
      tax_func == TaxClosure(brackets, cfg.regional_surcharge, cfg.municipal_surcharge)
  IN  YearTotals(pension_gross,
                 pension_tax_of(pension_gross, in_regime),
                 StrategyLoop(1, [foreign_income |-> Zero, foreign_tax |-> Zero,
                                  italian_income |-> Zero, italian_tax |-> Zero,
                                  new_pots |-> << >>], in_regime, tax_func))

\* one iteration of "for y in years", for year yr
YearBody(yr) ==
  LET in_regime == yr <= cfg.years_in_7pct
      pension_gross == RAdd(you_pension_eur, wife_pension_eur)
      tax_func == TaxClosure(brackets, cfg.regional_surcharge, cfg.municipal_surcharge)
  IN  YearTotals(pension_gross,
                 pension_tax_of(pension_gross, in_regime),
                 StrategyLoop(1, [foreign_income |-> Zero, foreign_tax |-> Zero,
                                  italian_income |-> Zero, italian_tax |-> Zero,
                                  new_pots |-> << >>], in_regime, tax_func))

\* combine_series_to_df(years, {...}): row i gets Year = years[i]
combine_series_to_df(years, data) ==
  [i \in 1..Len(years) |->
     [Year |-> years[i],
      Pension_Gross_EUR |-> data[i].year_pension_gross,
      Foreign_Invest_Gross_EUR |-> data[i].year_foreign_invest_income,
      Italian_Invest_Gross_EUR |-> data[i].year_italian_invest_income,
      Tax_Pension_EUR |-> data[i].year_pension_tax,
      Tax_Foreign_Invest_EUR |-> data[i].year_foreign_invest_tax,
      Tax_Italian_Invest_EUR |-> data[i].year_italian_invest_tax,
      Tax_Total_EUR |-> data[i].year_tax_total,
      Net_Income_Total_EUR |-> data[i].year_net_income_total,
      End_Capital_EUR |-> data[i].year_end_capital]]

Init ==
  /\ pc = "inputs"
  /\ cfg = << >>
  /\ y = 0
  /\ pots = << >>
  /\ rows = << >>
  /\ df = << >>
  /\ call = NoCall
  /\ prevCall = NoCall

\* the sidebar widgets return their values
ReadInputs ==
  /\ pc = "inputs"
  /\ cfg' \in Configs
  /\ pc' = "setup"
  /\ UNCHANGED << y, pots, rows, df, call, prevCall >>

\* "Convert to EUR" and "Simulation" up to the loop: the starting pots
Setup ==
  /\ pc = "setup"
  /\ pots' = weighted_starting_capital(starting_capital_eur, cfg.strategies)
  /\ rows' = << >>
  /\ pc' = "loop"
  /\ UNCHANGED << cfg, y, df, call, prevCall >>

\* one iteration of the simulation loop
YearStep ==
  /\ pc = "loop"
  /\ y < years_total
  /\ LET b == YearBody(y + 1)
     IN  /\ pots' = b.pots
         /\ rows' = Append(rows, b.row)
  /\ y' = y + 1
  /\ UNCHANGED << pc, cfg, df, call, prevCall >>

\* the loop is exhausted: "Build DataFrame"
BuildDataFrame ==
  /\ pc = "loop"
  /\ y = years_total
  /\ df' = combine_series_to_df([i \in 1..years_total |-> i], rows)
  /\ pc' = "built"
  /\ UNCHANGED << cfg, y, pots, rows, call, prevCall >>

Next == ReadInputs \/ Setup \/ YearStep \/ BuildDataFrame

Spec == Init /\ [][Next]_vars

\* The control flow of the script: which statement runs next. Every action of
\* Next is one of these steps together with assignments that always have a
\* value, so an action is enabled exactly when its control step is.
ControlStep ==
  \/ pc = "inputs" /\ pc' = "setup" /\ y' = y
  \/ pc = "setup" /\ pc' = "loop" /\ y' = y
  \/ pc = "loop" /\ y < years_total /\ pc' = pc /\ y' = y + 1
  \/ pc = "loop" /\ y = years_total /\ pc' = "built" /\ y' = y

\* the interpreter runs the script to its end: a statement that can run does
FairSpec == Spec /\ WF_<<pc, y>>(ControlStep)

\* ------------------------------------------- calc_irpef_tax as a function
\* Bracket tables: strictly increasing finite bounds, the last bracket
\* unbounded, rates in [0, 1]; and the table of italian_irpef_2025.
BoundInputs == { R(10, 1), R(20, 1), R(30, 1) }
RateInputs == { Zero, R(1, 4), R(1, 2) }

RECURSIVE TablesOfLen(_)
TablesOfLen(len) ==
  IF len = 1 THEN { << IrpefBracket(Inf, r) >> : r \in RateInputs }
  ELSE { x \in { << IrpefBracket(u, r) >> \o t :
                    u \in BoundInputs, r \in RateInputs, t \in TablesOfLen(len - 1) } :
           RLt(x[1].up_to, x[2].up_to) }

BracketTables ==
  UNION { TablesOfLen(len) : len \in 1..MaxBrackets } \cup { italian_irpef_2025 }

TaxIncomes ==
  { Zero, R(5, 1), R(10, 1), R(15, 1), R(20, 1), R(25, 1), R(57, 2), R(30, 1),
    R(45, 1), R(3500, 1), R(40000, 1), R(70000, 1) }

TaxInit ==
  /\ pc = "call"
  /\ cfg \in { [brackets |-> t] : t \in BracketTables }
  /\ y = 0
  /\ pots = << >>
  /\ rows = << >>
  /\ df = << >>
  /\ call = NoCall
  /\ prevCall = NoCall

\* one application; a run applies the function twice, to compare two incomes
CallCalcIrpefTax ==
  /\ pc = "call"
  /\ prevCall = NoCall
  /\ \E income_eur \in TaxIncomes :
       call' = [fn |-> "calc_irpef_tax", income_eur |-> income_eur,
                brackets |-> cfg.brackets,
                result |-> calc_irpef_tax(income_eur, cfg.brackets)]
  /\ prevCall' = call
  /\ UNCHANGED << pc, cfg, y, pots, rows, df >>

TaxNext == CallCalcIrpefTax

TaxSpec == TaxInit /\ [][TaxNext]_vars

\* ----------------------------------- annual_investment_step as a function
StepCapitals == { Zero, R(1000, 1), R(100000, 1), R(2000000, 1) }

StepStrategies ==
  { StrategyInputs(Zero, yld, fee, grow, f) :
      yld \in { Zero, One, R(4, 1) }, fee \in { Zero, R(5, 10), R(2, 1) },
      grow \in { Zero, R(2, 1), R(-10, 1) }, f \in BOOLEAN }

StepSurcharges ==
  { [regional_surcharge |-> R(1, 100), municipal_surcharge |-> R(5, 1000)],
    [regional_surcharge |-> Zero, municipal_surcharge |-> Zero],
    [regional_surcharge |-> R(-2, 1), municipal_surcharge |-> Zero] }

StepInit ==
  /\ pc = "call"
  /\ cfg \in StepSurcharges
  /\ y = 0
  /\ pots = << >>
  /\ rows = << >>
  /\ df = << >>
  /\ call = NoCall
  /\ prevCall = NoCall

\* one application per run
CallAnnualInvestmentStep ==
  /\ pc = "call"
  /\ call = NoCall
  /\ \E capital \in StepCapitals, strategy \in StepStrategies, in_regime_7pct \in BOOLEAN :
       LET tax_func == TaxClosure(brackets, cfg.regional_surcharge, cfg.municipal_surcharge)
       IN  call' = [fn |-> "annual_investment_step", capital |-> capital,
                    strategy |-> strategy, in_regime_7pct |-> in_regime_7pct,
                    tax_func_post10 |-> tax_func,
                    result |-> annual_investment_step(capital, strategy,
                                                      in_regime_7pct, tax_func)]
  /\ UNCHANGED << pc, cfg, y, pots, rows, df, prevCall >>

StepNext == CallAnnualInvestmentStep

StepSpec == StepInit /\ [][StepNext]_vars


\* ---------------------------------------------------------------- utils.py
\* A DataFrame is the sequence of its rows, a row maps column names to values.
\* DataFrame objects live in a store (reference -> table), so that a copy and
\* an assignment to a column of an existing object are told apart.

\* a ** k for an integer k
RECURSIVE RPow(_, _)
RPow(a, k) ==
  IF k = 0 THEN One
  ELSE IF k < 0 THEN RPow(RDiv(One, a), -k)
  ELSE RMul(a, RPow(a, k - 1))

\* df[name] = values
SetColumn(table, name, values) ==
  [i \in 1..Len(table) |->
     [k \in (DOMAIN table[i]) \cup {name} |->
        IF k = name THEN values[i] ELSE table[i][k]]]

\* mutant of InflationIndex: the exponent starts at 1
InflationIndexFromOne(infl, len) == [i \in 1..len |-> RPow(infl, i)]

\* [infl ** i for i in range(len(df))]
InflationIndex(infl, len) == [i \in 1..len |-> RPow(infl, i - 1)]

\* for c in cols: df[f"{c}_real"] = df[c] / df["Inflation_Index"], from the k-th column on
RECURSIVE RealColumns(_, _, _)
RealColumns(table, cols, k) ==
  IF k > Len(cols) THEN table
  ELSE RealColumns(SetColumn(table, cols[k] \o "_real",
                             [i \in 1..Len(table) |->
                                RDiv(table[i][cols[k]], table[i]["Inflation_Index"])]),
                   cols, k + 1)

\* mutant of add_real_terms: the columns are written into the table given
add_real_terms_in_place(heap, df_ref, cols, inflation_pct) ==
  LET infl == RAdd(One, Pct(inflation_pct))
      indexed == SetColumn(heap[df_ref], "Inflation_Index",
                           InflationIndex(infl, Len(heap[df_ref])))
  IN  [heap |-> [heap EXCEPT ![df_ref] = RealColumns(indexed, cols, 1)], df |-> df_ref]

\* add_real_terms on the object df_ref of the store: the store afterwards and
\* the reference returned
add_real_terms(heap, df_ref, cols, inflation_pct) ==
  LET copy == Cardinality(DOMAIN heap) + 1
      infl == RAdd(One, Pct(inflation_pct))
      indexed == SetColumn(heap[df_ref], "Inflation_Index",
                           InflationIndex(infl, Len(heap[df_ref])))
  IN  [heap |-> heap @@ (copy :> RealColumns(indexed, cols, 1)), df |-> copy]

\* ------------------------------------ app.py: the real columns of the script
\* for base_col in [...]: df[f"{base_col}_Real"] = df[base_col] * df["Inflation_Deflator"]
RECURSIVE DeflatedColumns(_, _, _)
DeflatedColumns(table, base_cols, k) ==
  IF k > Len(base_cols) THEN table
  ELSE DeflatedColumns(SetColumn(table, base_cols[k] \o "_Real",
                                 [i \in 1..Len(table) |->
                                    RMul(table[i][base_cols[k]],
                                         table[i]["Inflation_Deflator"])]),
                       base_cols, k + 1)

\* "Compute real (inflation-adjusted) columns": df is changed in place
compute_real_columns(heap, df_ref, inflation_pct) ==
  IF \A i \in 1..Len(heap[df_ref]) : "Year" \in DOMAIN heap[df_ref][i]
  THEN [heap EXCEPT ![df_ref] =
          DeflatedColumns(
            SetColumn(@, "Inflation_Deflator",
                      [i \in 1..Len(@) |-> RPow(RAdd(One, Pct(inflation_pct)), -(i - 1))]),
            << "Net_Income_Total_EUR", "End_Capital_EUR", "Tax_Total_EUR" >>, 1)]
  ELSE heap

\* the cols argument of the call in app.py
RealTermCols ==
  << "Pension_Gross_EUR", "Foreign_Invest_Gross_EUR", "Italian_Invest_Gross_EUR",
     "Tax_Total_EUR", "Net_Income_Total_EUR", "End_Capital_EUR" >>

\* ------------------------------------------- add_real_terms as a function
\* values of the nine tracking lists for one year
TrackedYears ==
  { [year_end_capital |-> R(5100, 1), year_pension_gross |-> R(5000, 1),
     year_tax_total |-> R(378, 1), year_net_income_total |-> R(4822, 1),
     year_foreign_invest_income |-> R(200, 1), year_italian_invest_income |-> Zero,
     year_foreign_invest_tax |-> R(28, 1), year_italian_invest_tax |-> Zero,
     year_pension_tax |-> R(350, 1)],
    [year_end_capital |-> Zero, year_pension_gross |-> Zero,
     year_tax_total |-> Zero, year_net_income_total |-> Zero,
     year_foreign_invest_income |-> Zero, year_italian_invest_income |-> Zero,
     year_foreign_invest_tax |-> Zero, year_italian_invest_tax |-> Zero,
     year_pension_tax |-> Zero],
    [year_end_capital |-> R(3060, 1), year_pension_gross |-> R(2400, 1),
     year_tax_total |-> R(-1159, 2), year_net_income_total |-> R(6199, 2),
     year_foreign_invest_income |-> Zero, year_italian_invest_income |-> R(120, 1),
     year_foreign_invest_tax |-> Zero, year_italian_invest_tax |-> R(-55, 2),
     year_pension_tax |-> R(-552, 1)] }

\* the tables combine_series_to_df builds from 1..MaxRows tracked years
RealTables ==
  UNION { { combine_series_to_df([i \in 1..len |-> i], data) :
              data \in [1..len -> TrackedYears] } : len \in 1..MaxRows }

\* inflation_pct: number_input with min_value 0.0 and max_value 15.0
InflationInputs == { Zero, R(2, 1), R(15, 1) }

ColsInputs == { RealTermCols, << "End_Capital_EUR", "End_Capital_EUR" >>, << >> }

RealInit ==
  /\ pc = "call"
  /\ cfg \in { [df |-> 1, table |-> t, cols |-> c, inflation_pct |-> i] :
                 t \in RealTables, c \in ColsInputs, i \in InflationInputs }
  /\ y = 0
  /\ pots = << >>
  /\ rows = << >>
  /\ df = (1 :> cfg.table)
  /\ call = NoCall
  /\ prevCall = NoCall

\* add_real_terms applied to the table built, and once more to its own output
CallAddRealTerms ==
  /\ pc = "call"
  /\ y < 2
  /\ \E arg \in { IF call = NoCall THEN cfg.df ELSE call.result } :
       \E r \in { add_real_terms(df, arg, cfg.cols, cfg.inflation_pct) } :
         /\ df' = r.heap
         /\ call' = [fn |-> "add_real_terms", df |-> arg, cols |-> cfg.cols,
                     inflation_pct |-> cfg.inflation_pct, result |-> r.df]
  /\ prevCall' = call
  /\ y' = y + 1
  /\ UNCHANGED << pc, cfg, pots, rows >>

\* the script goes on with the table add_real_terms returned
ComputeRealColumns ==
  /\ pc = "call"
  /\ y = 1
  /\ df' = compute_real_columns(df, call.result, cfg.inflation_pct)
  /\ pc' = "tab1"
  /\ UNCHANGED << cfg, y, pots, rows, call, prevCall >>

RealNext == CallAddRealTerms \/ ComputeRealColumns

RealSpec == RealInit /\ [][RealNext]_vars


\* ================================================================= claims
\* lower end of bracket i: the previous bracket's bound, 0 for the first
LowerBound(brk, i) == IF i = 1 THEN Zero ELSE brk[i - 1].up_to

\* size of the part of the income lying in (LowerBound, up_to] of bracket i
SliceOf(income, brk, i) ==
  RMax(RSub(RMin(income, brk[i].up_to), LowerBound(brk, i)), Zero)

RECURSIVE MarginalSum(_, _, _)
MarginalSum(income, brk, i) ==
  IF i > Len(brk) THEN Zero
  ELSE RAdd(RMul(brk[i].rate, SliceOf(income, brk, i)), MarginalSum(income, brk, i + 1))

\* income lies in bracket i, ends included
InBracket(income, brk, i) ==
  RLe(LowerBound(brk, i), income) /\ RLe(income, brk[i].up_to)

\* the bracket a positive income reaches
ReachedBracket(income, brk) ==
  CHOOSE i \in 1..Len(brk) : RLt(LowerBound(brk, i), income) /\ RLe(income, brk[i].up_to)

IsTaxCall(c) == c.fn = "calc_irpef_tax"

\* C1: calc_irpef_tax returns the sum over the brackets of rate * (size of the
\* part of the income in (previous bound, upper bound]); income 0 gives 0; an
\* income past the first bracket of a table whose lower rates are all below
\* the rate reached pays less than the whole income at that rate; with the
\* 2025 table income 40000 gives 10640 and income 70000 gives 22740.
C1_MarginalSum ==
  IsTaxCall(call) =>
    LET income == call.income_eur
        brk == call.brackets
    IN  /\ call.result = MarginalSum(income, brk, 1)
        /\ (income = Zero) => (call.result = Zero)
        /\ RLt(Zero, income) =>
             LET top == ReachedBracket(income, brk)
             IN  (top > 1 /\ \A k \in 1..(top - 1) : RLt(brk[k].rate, brk[top].rate))
                   => RLt(call.result, RMul(income, brk[top].rate))
        /\ (brk = italian_irpef_2025 /\ income = R(40000, 1)) => (call.result = R(10640, 1))
        /\ (brk = italian_irpef_2025 /\ income = R(70000, 1)) => (call.result = R(22740, 1))

C1_Witness ==
  /\ IsTaxCall(call) /\ IsTaxCall(prevCall)
  /\ call.brackets = italian_irpef_2025
  /\ prevCall.income_eur = R(40000, 1) /\ prevCall.result = R(10640, 1)
  /\ call.income_eur = R(70000, 1) /\ call.result = R(22740, 1)

\* C7: for a fixed table calc_irpef_tax is non-decreasing in income, and
\* between two incomes of one bracket the tax rises by exactly the
\* difference of the incomes times that bracket's rate.
C7_Monotone ==
  (IsTaxCall(call) /\ IsTaxCall(prevCall) /\ RLe(prevCall.income_eur, call.income_eur)) =>
    LET brk == call.brackets
        d == RSub(call.income_eur, prevCall.income_eur)
    IN  /\ RLe(prevCall.result, call.result)
        /\ \A i \in 1..Len(brk) :
             (InBracket(prevCall.income_eur, brk, i) /\ InBracket(call.income_eur, brk, i))
               => RSub(call.result, prevCall.result) = RMul(d, brk[i].rate)

C7_Witness ==
  /\ IsTaxCall(call) /\ IsTaxCall(prevCall)
  /\ Len(call.brackets) = 3
  /\ RLt(prevCall.income_eur, call.income_eur)
  /\ InBracket(prevCall.income_eur, call.brackets, 3)
  /\ RLt(LowerBound(call.brackets, 3), prevCall.income_eur)
  /\ RLt(prevCall.result, call.result)


IsStepCall(c) == c.fn = "annual_investment_step"

Hundred == R(100, 1)

\* the regime selector: flat 7% in the regime on foreign-source income,
\* otherwise bracket tax times (1 + regional + municipal)
SelectorTax(income, in_regime, is_foreign, regional, municipal) ==
  IF in_regime /\ is_foreign
  THEN RDiv(RMul(R(7, 1), income), Hundred)
  ELSE RMul(calc_irpef_tax(income, italian_irpef_2025),
            RAdd(One, RAdd(regional, municipal)))

\* capital * yield - capital * fee, floored at 0
IncomeAfterFees(capital, strategy) ==
  LET gross == RDiv(RMul(capital, strategy.gross_yield_pct), Hundred)
      fees == RDiv(RMul(capital, strategy.mgmt_fee_pct), Hundred)
  IN  IF RLt(gross, fees) THEN Zero ELSE RSub(gross, fees)

ScenarioStrategy(s) ==
  s.gross_yield_pct = R(4, 1) /\ s.mgmt_fee_pct = R(5, 10) /\ s.growth_pct = R(2, 1)

DefaultSurcharges(c) ==
  c.regional_surcharge = R(1, 100) /\ c.municipal_surcharge = R(5, 1000)

\* C4: annual_investment_step returns gross_income = capital * yield,
\* income_after_fees = max(gross_income - capital * fee, 0) taxed by the regime
\* selector, and net_income = max(income_after_fees - tax, 0); capital 100000,
\* yield 4%, fee 0.5%, growth 2% gives in the regime, foreign-source, gross
\* 4000, tax 245, net 3255, end capital 102000, and after the regime with
\* surcharges 1% + 0.5% tax 817.075 and net 2682.925.
C4_StepResult ==
  IsStepCall(call) =>
    LET s == call.strategy
        r == call.result
        f == call.tax_func_post10
        iaf == IncomeAfterFees(call.capital, s)
        tax == SelectorTax(iaf, call.in_regime_7pct, s.is_foreign_source,
                           f.regional_surcharge, f.municipal_surcharge)
    IN  /\ r.gross_income = RDiv(RMul(call.capital, s.gross_yield_pct), Hundred)
        /\ r.tax = tax
        /\ r.net_income = IF RLt(iaf, tax) THEN Zero ELSE RSub(iaf, tax)
        /\ (call.capital = R(100000, 1) /\ ScenarioStrategy(s)) =>
             /\ r.gross_income = R(4000, 1)
             /\ r.end_capital = R(102000, 1)
             /\ (call.in_regime_7pct /\ s.is_foreign_source) =>
                  (r.tax = R(245, 1) /\ r.net_income = R(3255, 1))
             /\ (~call.in_regime_7pct /\ DefaultSurcharges(f)) =>
                  (r.tax = R(817075, 1000) /\ r.net_income = R(2682925, 1000))

C4_Witness ==
  /\ IsStepCall(call)
  /\ call.capital = R(100000, 1) /\ ScenarioStrategy(call.strategy)
  /\ ~call.in_regime_7pct /\ DefaultSurcharges(call.tax_func_post10)
  /\ call.result.tax = R(817075, 1000)
  /\ call.result.net_income = R(2682925, 1000)

\* C5: for capital >= 0, yield and fee >= 0, the 2025 brackets and any
\* surcharges the inputs accept, the net_income and the tax returned by
\* annual_investment_step are >= 0, and calc_irpef_tax is never negative.
C5_NoNegativeOutputs ==
  IsStepCall(call) =>
    /\ RLe(Zero, call.result.net_income)
    /\ RLe(Zero, call.result.tax)
    /\ RLe(Zero, calc_irpef_tax(IncomeAfterFees(call.capital, call.strategy),
                                call.tax_func_post10.brackets))


\* a step of the simulation loop: year y' has just been simulated from pots
YearFired == pc = "loop" /\ y' = y + 1

PensionGross == RAdd(you_pension_eur, wife_pension_eur)

\* sum over the strategies whose source flag is is_foreign of f[k]
SumBySource(f, is_foreign) ==
  SumOver([k \in StrategyNames |->
             IF cfg.strategies[k].is_foreign_source = is_foreign THEN f[k] ELSE Zero])

\* the selector applied to each strategy's income after fees in year yr
StrategyTaxes(p, yr) ==
  [k \in StrategyNames |->
     SelectorTax(IncomeAfterFees(PotsGet(p, k), cfg.strategies[k]),
                 yr <= cfg.years_in_7pct, cfg.strategies[k].is_foreign_source,
                 cfg.regional_surcharge, cfg.municipal_surcharge)]

\* C2: in every year the pension tax is the selector applied to the combined
\* pension as foreign-source income, and the foreign and domestic investment
\* taxes are the selector applied to each strategy's income after fees with
\* that strategy's source flag: 0.07 * income when year <= regime years and
\* foreign-source, else bracket tax * (1 + regional + municipal).
C2_RegimeSwitch ==
  [][YearFired =>
       LET row == rows'[Len(rows')]
           taxes == StrategyTaxes(pots, y')
       IN  /\ row.year_pension_tax =
                SelectorTax(PensionGross, y' <= cfg.years_in_7pct, TRUE,
                            cfg.regional_surcharge, cfg.municipal_surcharge)
           /\ row.year_foreign_invest_tax = SumBySource(taxes, TRUE)
           /\ row.year_italian_invest_tax = SumBySource(taxes, FALSE)]_vars

C2_Witness ==
  /\ pc = "loop" /\ Len(rows) >= 2
  /\ cfg.years_in_7pct = 1
  /\ ~cfg.strategies["Rental"].is_foreign_source
  /\ rows[1].year_pension_tax = RMul(R(7, 100), PensionGross)
  /\ RLt(rows[1].year_pension_tax, rows[2].year_pension_tax)
  /\ RLt(Zero, rows[1].year_italian_invest_tax)
  /\ RLt(Zero, rows[1].year_foreign_invest_tax)
  /\ RLt(rows[1].year_foreign_invest_tax, rows[2].year_foreign_invest_tax)

\* gross income and fees of the year simulated from pots p
GrossIncomes(p) ==
  [k \in StrategyNames |->
     RDiv(RMul(PotsGet(p, k), cfg.strategies[k].gross_yield_pct), Hundred)]

Fees(p) ==
  [k \in StrategyNames |->
     RDiv(RMul(PotsGet(p, k), cfg.strategies[k].mgmt_fee_pct), Hundred)]

\* C3: the net income recorded for a year is the year's gross income (pension
\* plus every strategy's gross investment income) minus the strategies' fees
\* minus the year's total tax, floored at 0.
C3_NetIncome ==
  [][YearFired =>
       LET row == rows'[Len(rows')]
           gross == RAdd(PensionGross, SumOver(GrossIncomes(pots)))
           fees == SumOver(Fees(pots))
       IN  row.year_net_income_total =
             RMax(RSub(RSub(gross, fees), row.year_tax_total), Zero)]_vars

\* 1 + growth
GrowthFactor(s) == RDiv(RAdd(Hundred, s.growth_pct), Hundred)

\* C6: every year each pot becomes the pot of the year before times
\* (1 + growth), whatever yield, fee, tax, regime and source are; and the step
\* on a strategy with yield = fee = 0 gives end_capital = capital * (1 + growth)
\* and net_income = 0.
C6_OnlyGrowth ==
  /\ [][YearFired =>
          /\ DOMAIN pots' = StrategyNames
          /\ \A k \in StrategyNames :
               pots'[k] = RMul(PotsGet(pots, k), GrowthFactor(cfg.strategies[k]))]_vars
  /\ [](pc = "loop" =>
          \A k \in StrategyNames, in_regime \in BOOLEAN :
            LET s == cfg.strategies[k]
                r == annual_investment_step(pots[k], s, in_regime,
                       TaxClosure(brackets, cfg.regional_surcharge, cfg.municipal_surcharge))
            IN  (s.gross_yield_pct = Zero /\ s.mgmt_fee_pct = Zero) =>
                  /\ r.end_capital = RMul(pots[k], GrowthFactor(s))
                  /\ r.net_income = Zero)

C6_Witness ==
  /\ pc = "loop" /\ y >= 2
  /\ cfg.strategies["Cash"].gross_yield_pct = Zero
  /\ cfg.strategies["Cash"].growth_pct = R(20, 1)
  /\ RLt(Zero, pots["Cash"])
  /\ cfg.strategies["Rental"].growth_pct = R(20, 1)
  /\ RLt(Zero, rows[1].year_italian_invest_tax)
  /\ RLt(rows[1].year_end_capital, rows[2].year_end_capital)


AllocSum == SumOver([k \in StrategyNames |-> cfg.strategies[k].allocation_pct])

\* C8: with a positive allocation sum the starting pots are
\* total * allocation / allocation sum each, and add up to the total starting
\* capital, also when the allocations do not sum to 100.
C8_Proportional ==
  (pc = "loop" /\ y = 0 /\ RLt(Zero, AllocSum)) =>
    /\ DOMAIN pots = StrategyNames
    /\ \A k \in StrategyNames :
         RMul(pots[k], AllocSum) =
           RMul(starting_capital_eur, cfg.strategies[k].allocation_pct)
    /\ SumOver(pots) = starting_capital_eur

C8_Witness ==
  /\ pc = "loop" /\ y = 0
  /\ AllocSum = R(70, 1)
  /\ pots["Cash"] = RDiv(RMul(starting_capital_eur, R(4, 1)), R(7, 1))
  /\ pots["Bonds"] = RDiv(RMul(starting_capital_eur, R(3, 1)), R(7, 1))

\* C9: when the allocations sum to zero every strategy has a pot of 0, from
\* the start and in every year, every row has zero capital, zero investment
\* income and zero investment tax, and the projection still runs all its years.
C9_ZeroAllocation ==
  (pc \in { "loop", "built" } /\ AllocSum = Zero) =>
    /\ DOMAIN pots = StrategyNames
    /\ \A k \in StrategyNames : pots[k] = Zero
    /\ \A i \in 1..Len(rows) :
         /\ rows[i].year_end_capital = Zero
         /\ rows[i].year_foreign_invest_income = Zero
         /\ rows[i].year_italian_invest_income = Zero
         /\ rows[i].year_foreign_invest_tax = Zero
         /\ rows[i].year_italian_invest_tax = Zero
    /\ (pc = "built") => (Len(rows) = cfg.years_in_7pct + cfg.years_post)

C9_Witness ==
  /\ pc = "built"
  /\ AllocSum = Zero
  /\ RLt(Zero, starting_capital_eur)
  /\ Len(rows) >= 2
  /\ rows[2].year_end_capital = Zero

\* C10: the loop ends after exactly regime years + post-regime years
\* iterations and not before; each iteration appends exactly one row and
\* never changes an earlier one; the table built has one row per year with
\* Year = 1, 2, ..., total in this order; and the loop always ends.
C10_FixedHorizon ==
  /\ [](/\ Len(rows) = y
        /\ (pc # "inputs") => (y <= cfg.years_in_7pct + cfg.years_post)
        /\ (pc = "built") =>
             /\ y = cfg.years_in_7pct + cfg.years_post
             /\ Len(df) = y
             /\ \A i \in 1..Len(df) :
                  /\ df[i].Year = i
                  /\ df[i].End_Capital_EUR = rows[i].year_end_capital
                  /\ df[i].Net_Income_Total_EUR = rows[i].year_net_income_total)
  /\ [][/\ Len(rows') >= Len(rows)
        /\ SubSeq(rows', 1, Len(rows)) = rows
        /\ YearFired => (Len(rows') = Len(rows) + 1)]_vars
  /\ <>(pc = "built")

C10_Witness ==
  /\ pc = "built"
  /\ cfg.years_in_7pct = 2 /\ cfg.years_post = 2
  /\ Len(rows) = 4
  /\ Len(df) = 4 /\ df[4].Year = 4


IsRealCall(c) == c.fn = "add_real_terms"

\* 1 + inflation as a fraction
InflationFactor == RDiv(RAdd(Hundred, cfg.inflation_pct), Hundred)

\* the value v after n years of inflation at the factor infl
RECURSIVE Compounded(_, _, _)
Compounded(v, infl, n) == IF n = 0 THEN v ELSE Compounded(RMul(v, infl), infl, n - 1)

\* C11: in the table add_real_terms returns, for the row at position i
\* (0 for the first row) and every requested column, the real value times
\* (1 + inflation)^i is the nominal value, so the first row's real values are
\* its nominal values; the same holds for the _Real columns the script adds.
C11_RoundTrip ==
  IsRealCall(call) =>
    LET out == df[call.result]
    IN  /\ \A i \in 1..Len(out), k \in 1..Len(call.cols) :
             /\ Compounded(out[i][call.cols[k] \o "_real"], InflationFactor, i - 1)
                  = out[i][call.cols[k]]
             /\ (i = 1) => (out[i][call.cols[k] \o "_real"] = out[i][call.cols[k]])
        /\ (pc = "tab1") =>
             \A i \in 1..Len(out) :
               \A c \in { "Net_Income_Total_EUR", "End_Capital_EUR", "Tax_Total_EUR" } :
                 /\ Compounded(out[i][c \o "_Real"], InflationFactor, i - 1) = out[i][c]
                 /\ (i = 1) => (out[i][c \o "_Real"] = out[i][c])

C11_Witness ==
  /\ pc = "tab1" /\ IsRealCall(call)
  /\ cfg.inflation_pct = R(2, 1) /\ call.cols = RealTermCols
  /\ Len(df[call.result]) = 3
  /\ df[call.result][3]["End_Capital_EUR"] = R(5100, 1)
  /\ df[call.result][3]["End_Capital_EUR_real"] = R(250000, 51)
  /\ df[call.result][3]["End_Capital_EUR_Real"] = R(250000, 51)
  /\ df[call.result][1]["End_Capital_EUR_real"] = df[call.result][1]["End_Capital_EUR"]

\* the names of the columns add_real_terms writes for the columns cols
DerivedNames(cols) == {"Inflation_Index"} \cup { cols[k] \o "_real" : k \in 1..Len(cols) }

\* C12: add_real_terms returns a new table and changes no table that exists,
\* the one it is given included; in the table returned every nominal column
\* has the values of the table given and only the index and the _real columns
\* are added; applied to its own output with the same columns and inflation
\* it returns a table equal to that output.
C12_PureIdempotent ==
  /\ [](IsRealCall(call) =>
          LET out == df[call.result]
          IN  /\ call.result # call.df
              /\ df[cfg.df] = cfg.table
              /\ Len(out) = Len(cfg.table)
              /\ \A i \in 1..Len(out) :
                   /\ (pc = "call") =>
                        (DOMAIN out[i] = (DOMAIN cfg.table[i]) \cup DerivedNames(call.cols))
                   /\ \A k \in DOMAIN cfg.table[i] : out[i][k] = cfg.table[i][k]
              /\ IsRealCall(prevCall) => (out = df[prevCall.result]))
  /\ [][(y' = y + 1) => (\A r \in DOMAIN df : r \in DOMAIN df' /\ df'[r] = df[r])]_vars

C12_Witness ==
  /\ pc = "call" /\ y = 2 /\ IsRealCall(call) /\ IsRealCall(prevCall)
  /\ call.df = prevCall.result /\ call.result # prevCall.result
  /\ cfg.inflation_pct = R(15, 1) /\ call.cols = RealTermCols
  /\ Len(df[call.result]) = 3
  /\ df[call.result] = df[prevCall.result]
  /\ RLt(df[call.result][3]["Net_Income_Total_EUR_real"],
         df[call.result][3]["Net_Income_Total_EUR"])


\* C13: in the row of every year the end capital is the sum of the pots after
\* the year's update; each strategy's gross income and its own tax (the
\* selector on that strategy's income after fees) are added to the foreign
\* totals if its source flag is set and to the domestic totals otherwise, to
\* exactly one of them; total tax = pension tax + foreign tax + domestic tax;
\* total net = pension net + (foreign income - foreign tax)
\*                         + (domestic income - domestic tax).
C13_Aggregation ==
  [][YearFired =>
       LET row == rows'[Len(rows')]
           gross == GrossIncomes(pots)
           taxes == StrategyTaxes(pots, y')
       IN  /\ row.year_end_capital = SumOver([k \in StrategyNames |-> pots'[k]])
           /\ row.year_foreign_invest_income = SumBySource(gross, TRUE)
           /\ row.year_italian_invest_income = SumBySource(gross, FALSE)
           /\ RAdd(row.year_foreign_invest_income, row.year_italian_invest_income)
                = SumOver(gross)
           /\ RAdd(row.year_foreign_invest_tax, row.year_italian_invest_tax)
                = SumOver(taxes)
           /\ row.year_foreign_invest_tax = SumBySource(taxes, TRUE)
           /\ row.year_tax_total =
                RAdd(row.year_pension_tax,
                     RAdd(row.year_foreign_invest_tax, row.year_italian_invest_tax))
           /\ row.year_net_income_total =
                RAdd(RSub(row.year_pension_gross, row.year_pension_tax),
                     RAdd(RSub(row.year_foreign_invest_income, row.year_foreign_invest_tax),
                          RSub(row.year_italian_invest_income, row.year_italian_invest_tax)))
           /\ row.year_pension_gross = PensionGross]_vars

C13_Witness ==
  /\ pc = "loop" /\ y = 3 /\ cfg.years_in_7pct = 2
  /\ ~cfg.strategies["Rental"].is_foreign_source
  /\ \A k \in StrategyNames : RLt(Zero, pots[k])
  /\ RLt(Zero, rows[3].year_italian_invest_income)
  /\ RLt(rows[3].year_italian_invest_income, rows[3].year_foreign_invest_income)
  /\ RLt(Zero, rows[3].year_italian_invest_tax)
  /\ RLt(rows[3].year_pension_tax, rows[3].year_tax_total)
  /\ rows[3].year_end_capital = SumOver([k \in StrategyNames |-> pots[k]])


\* the flat rate was applied to the pension of the recorded year i
FlatYear(i) == rows[i].year_pension_tax = RDiv(RMul(R(7, 1), rows[i].year_pension_gross), Hundred)

\* income after fees of the strategies with source flag is_foreign, from pots p
IncomeBySource(p, is_foreign) ==
  SumBySource([k \in StrategyNames |-> IncomeAfterFees(PotsGet(p, k), cfg.strategies[k])],
              is_foreign)

\* bracket tax with the surcharges, on each strategy's income after fees
BracketTaxes(p) ==
  [k \in StrategyNames |->
     SelectorTax(IncomeAfterFees(PotsGet(p, k), cfg.strategies[k]), FALSE,
                 cfg.strategies[k].is_foreign_source,
                 cfg.regional_surcharge, cfg.municipal_surcharge)]

\* C14: the flat 7% rate is applied in exactly the recorded years
\* 1..regime years (to the pension and to all foreign-source income, never to
\* domestic income) and in no later year; once a year after the regime has
\* been reached, no later row applies it; years on the same side of the
\* regime's end tax the pension alike, whatever was chosen in earlier years.
C14_RegimeYears ==
  /\ [](pc \in {"loop", "built"} =>
          /\ \A i \in 1..Len(rows) : FlatYear(i) <=> (i <= cfg.years_in_7pct)
          /\ \A i, j \in 1..Len(rows) :
               ((i <= cfg.years_in_7pct) <=> (j <= cfg.years_in_7pct))
                 => (rows[i].year_pension_tax = rows[j].year_pension_tax))
  /\ [][YearFired =>
          LET row == rows'[Len(rows')]
          IN  /\ row.year_italian_invest_tax = SumBySource(BracketTaxes(pots), FALSE)
              /\ IF y' <= cfg.years_in_7pct
                 THEN row.year_foreign_invest_tax =
                        RDiv(RMul(R(7, 1), IncomeBySource(pots, TRUE)), Hundred)
                 ELSE row.year_foreign_invest_tax = SumBySource(BracketTaxes(pots), TRUE)]_vars
  /\ []((pc \in {"loop", "built"} /\ y > cfg.years_in_7pct) =>
          [](/\ pc \in {"loop", "built"}
             /\ y > cfg.years_in_7pct
             /\ ~FlatYear(Len(rows))))

C14_Witness ==
  /\ pc = "built" /\ cfg.years_in_7pct = 2 /\ Len(rows) = 4
  /\ FlatYear(1) /\ FlatYear(2) /\ ~FlatYear(3) /\ ~FlatYear(4)
  /\ ~cfg.strategies["Rental"].is_foreign_source
  /\ RLt(Zero, rows[2].year_italian_invest_tax)
  /\ RLt(Zero, rows[2].year_foreign_invest_tax)
  /\ RLt(rows[2].year_foreign_invest_tax, rows[3].year_foreign_invest_tax)
  /\ rows[3].year_pension_tax = rows[4].year_pension_tax

=============================================================================
